---- MODULE Spec2Model ----
(***************************************************************************)
(* LazyExecute (src/src/psd/lazy_execute.js): a binding over a target      *)
(* object and a shared seekable file.  now() runs an operation of the      *)
(* target at once, later() registers the operation to run on the first     *)
(* access that is not listed by ignore(), get() returns a Proxy whose get  *)
(* trap calls load() before it forwards the access.                        *)
(*                                                                         *)
(* The target's operations are code of the caller.  They run between the   *)
(* call `obj[method].apply(obj, args)` and its return, so a handler that   *)
(* makes this call is split there: the part up to the call is one action,  *)
(* the steps of the running operation (reading the file, accessing a       *)
(* wrapper again) are actions of their own, and the rest of the handler    *)
(* runs when the operation returns (NowReturn, LoadReturn) or is skipped   *)
(* when it throws (OpThrow).  `stack` holds the waiting handlers.          *)
(***************************************************************************)
EXTENDS Integers, Sequences, FiniteSets, TLC

\* ---------------------------------------------------------------- bounds
NumBindings == 2
MaxPos == 2
MaxDepth == 2
MaxInvocations == 2
MaxPassthru == 1
MaxWrappers == 2

Bindings == 1..NumBindings
\* The bindings the single-binding specification Spec drives.
Solo == {1}
Wrappers == 1..MaxWrappers
Single == {1}
Positions == 0..MaxPos
NoPos == 0 - 1

\* ------------------------------------------------- the target object (obj)
\* Member names a caller may ask for.  "width" and "pixels" are data of the
\* target, "parse" and "skip" are its operations, "nope" is on no target.
Names == {"width", "pixels"}
IgnoreNames == {"width"}
NoMethod == "null"
MethodNames == {"parse", "skip", "nope"}
ArgLists == {<<>>, <<1>>}

\* Values of the target's members.
Undefined == <<"undefined", 0>>
FnValue == <<"function", 0>>
HeaderValue == <<"header", 0>>
Unparsed == <<"unparsed", 0>>
Partial == <<"partial", 0>>
Parsed == <<"parsed", 0>>

\* obj[method] is a function, so obj[method].apply(...) does not throw a
\* TypeError.
Callable(method) == method \in {"parse", "skip"}

\* target[name] for a target whose pixel data is px.
TargetGet(px, name) ==
  CASE name = "width" -> HeaderValue
    [] name = "pixels" -> px
    [] name \in {"parse", "skip"} -> FnValue
    [] OTHER -> Undefined

\* The target's data after its operation `method` has returned: "parse"
\* decodes the data, "skip" only moves the file.
TargetOpDone(method, px) ==
  IF method = "parse" THEN Parsed ELSE px

\* The target's data after its operation has thrown part way.
TargetOpFailed(method, px) ==
  IF method = "parse" THEN Partial ELSE px

\* ------------------------------------------------------------------ state
VARIABLES
  pos,          \* the file's position (file.tell())
  phase,        \* phase[b]: "new" before the constructor ran, then "built"
  startPos,     \* this.startPos
  loaded,       \* this.loaded
  loadMethod,   \* this.loadMethod
  loadArgs,     \* this.loadArgs
  passthru,     \* this.passthru
  pixels,       \* the target's data (this.obj)
  wrapped,      \* history: the number of proxies get() has returned
  stack,        \* handlers waiting for the target operation they called
  invocations,  \* history: how often load() has invoked the deferred operation
  via,          \* history: the proxies whose trap made load() invoke it
  last          \* history: the outcome of the call that ended last

vars == <<pos, phase, startPos, loaded, loadMethod, loadArgs, passthru,
          pixels, wrapped, stack, invocations, via, last>>

binding == <<phase, startPos, loaded, loadMethod, loadArgs, passthru>>

\* A record of `last`.  outcome: "ok" (returned), "throw" (raised an error to
\* its caller), "pending" (waiting for the target operation it called).
\* ret: what it returned.  before: the file position when the call was made.
\* ran: the number of target operations the call invoked.  trace: the file
\* and target events of the call, in order.
Outcome(op, b, name, outcome, ret, value, before, opEnd, ran, trace) ==
  [op |-> op, b |-> b, name |-> name, outcome |-> outcome, ret |-> ret,
   value |-> value, before |-> before, opEnd |-> opEnd, ran |-> ran,
   trace |-> trace]

\* The call in progress has not ended: it waits for the target operation.
Pending == Outcome("call", 0, "", "pending", "none", Undefined, NoPos, NoPos, 0, <<>>)

Init ==
  /\ pos \in Positions
  /\ phase = [b \in Bindings |-> "new"]
  /\ startPos = [b \in Bindings |-> NoPos]
  /\ loaded = [b \in Bindings |-> FALSE]
  /\ loadMethod = [b \in Bindings |-> NoMethod]
  /\ loadArgs = [b \in Bindings |-> <<>>]
  /\ passthru = [b \in Bindings |-> <<>>]
  /\ pixels = [b \in Bindings |-> Unparsed]
  /\ wrapped = [b \in Bindings |-> 0]
  /\ stack = <<>>
  /\ invocations = [b \in Bindings |-> 0]
  /\ via = [b \in Bindings |-> {}]
  /\ last = Outcome("none", 0, "", "ok", "none", Undefined, NoPos, NoPos, 0, <<>>)

\* The call is made by the caller's own code, not by a running target
\* operation.
TopLevel == stack = <<>>

\* constructor(obj, file)
Construct(b) ==
  /\ TopLevel
  /\ phase[b] = "new"
  /\ phase' = [phase EXCEPT ![b] = "built"]
  /\ startPos' = [startPos EXCEPT ![b] = pos]
  /\ loaded' = [loaded EXCEPT ![b] = FALSE]
  /\ loadMethod' = [loadMethod EXCEPT ![b] = NoMethod]
  /\ loadArgs' = [loadArgs EXCEPT ![b] = <<>>]
  /\ passthru' = [passthru EXCEPT ![b] = <<>>]
  /\ last' = Outcome("constructor", b, "", "ok", "this", Undefined, NoPos, NoPos, 0, <<"tell">>)
  /\ UNCHANGED <<pos, pixels, wrapped, stack, invocations, via>>

\* A handler waiting on `stack`.  kind: "now" (now() called the operation) or
\* "load" (load(), called by the trap `trap` of proxy w for member `name`).  origPos: the
\* local origPos of load().  before, began: history, the file position when
\* the handler was entered and when the operation was invoked.
Frame(kind, b, w, trap, method, args, name, origPos, before, began) ==
  [kind |-> kind, b |-> b, w |-> w, trap |-> trap, method |-> method, args |-> args, name |-> name,
   origPos |-> origPos, before |-> before, began |-> began]

Top == stack[Len(stack)]
Pop == SubSeq(stack, 1, Len(stack) - 1)

\* now(method, ...args), up to the call of the target's operation.  A method
\* the target does not have makes obj[method].apply throw a TypeError.
Now(b, method, args) ==
  /\ TopLevel
  /\ phase[b] = "built"
  /\ IF Callable(method)
       THEN /\ stack' = Append(stack, Frame("now", b, 0, "none", method, args, "", NoPos, pos, pos))
            /\ last' = Pending
       ELSE /\ stack' = stack
            /\ last' = Outcome("now", b, "", "throw", "none", Undefined, NoPos, NoPos, 0, <<>>)
  /\ UNCHANGED <<pos, binding, pixels, wrapped, invocations, via>>

\* Faulty variant of NowReturn: now() puts the file back where it was before the
\* eager operation, as load() does.
NowReturnRewinds ==
  /\ stack # <<>>
  /\ Top.kind = "now"
  /\ stack' = Pop
  /\ pos' = Top.before
  /\ pixels' = [pixels EXCEPT ![Top.b] = TargetOpDone(Top.method, @)]
  /\ last' = Outcome("now", Top.b, "", "ok", "this", Undefined, NoPos, pos, 1, <<"invoke">>)
  /\ UNCHANGED <<binding, wrapped, invocations, via>>

\* now(), after the operation has returned: return this.
NowReturn ==
  /\ stack # <<>>
  /\ Top.kind = "now"
  /\ stack' = Pop
  /\ pixels' = [pixels EXCEPT ![Top.b] = TargetOpDone(Top.method, @)]
  /\ last' = Outcome("now", Top.b, "", "ok", "this", Undefined, NoPos, pos, 1, <<"invoke">>)
  /\ UNCHANGED <<pos, binding, wrapped, invocations, via>>

\* Faulty variant of Later: a registration is kept once it is made.
LaterKeepsFirst(b, method, args) ==
  /\ TopLevel
  /\ phase[b] = "built"
  /\ loadMethod' = [loadMethod EXCEPT ![b] = IF @ = NoMethod THEN method ELSE @]
  /\ loadArgs' = [loadArgs EXCEPT ![b] = IF loadMethod[b] = NoMethod THEN args ELSE @]
  /\ last' = Outcome("later", b, loadMethod[b], "ok", "this", Undefined, NoPos, NoPos, 0, <<>>)
  /\ UNCHANGED <<pos, phase, startPos, loaded, passthru, pixels, wrapped, stack, invocations, via>>

\* later(method, ...args).  The name of `last` is history: the registration
\* the call has overwritten.
Later(b, method, args) ==
  /\ TopLevel
  /\ phase[b] = "built"
  /\ loadMethod' = [loadMethod EXCEPT ![b] = method]
  /\ loadArgs' = [loadArgs EXCEPT ![b] = args]
  /\ last' = Outcome("later", b, loadMethod[b], "ok", "this", Undefined, NoPos, NoPos, 0, <<>>)
  /\ UNCHANGED <<pos, phase, startPos, loaded, passthru, pixels, wrapped, stack, invocations, via>>

\* The argument lists ignore() is called with.
IgnoreArgs == UNION {[1..k -> IgnoreNames] : k \in 0..MaxPassthru}

\* ignore(...args)
Ignore(b, args) ==
  /\ TopLevel
  /\ phase[b] = "built"
  /\ Len(passthru[b]) + Len(args) <= MaxPassthru
  /\ passthru' = [passthru EXCEPT ![b] = @ \o args]
  /\ last' = Outcome("ignore", b, "", "ok", "this", Undefined, NoPos, NoPos, 0, <<>>)
  /\ UNCHANGED <<pos, phase, startPos, loaded, loadMethod, loadArgs, pixels, wrapped, stack, invocations, via>>

\* Faulty variant of Get: get() runs the load at once instead of deferring it.
GetLoadsAtOnce(b, w) ==
  /\ TopLevel
  /\ phase[b] = "built"
  /\ w = wrapped[b] + 1
  /\ wrapped' = [wrapped EXCEPT ![b] = w]
  /\ loaded' = [loaded EXCEPT ![b] = TRUE]
  /\ pixels' = [pixels EXCEPT ![b] = TargetOpDone(loadMethod[b], @)]
  /\ last' = Outcome("get", b, "", "ok", "proxy", Undefined, NoPos, NoPos, 0, <<>>)
  /\ UNCHANGED <<pos, phase, startPos, loadMethod, loadArgs, passthru, stack, invocations, via>>

\* get(): a new Proxy over this.obj whose traps close over the binding.  It
\* is the binding's proxy number w.
Get(b, w) ==
  /\ TopLevel
  /\ phase[b] = "built"
  /\ w = wrapped[b] + 1
  /\ wrapped' = [wrapped EXCEPT ![b] = w]
  /\ last' = Outcome("get", b, "", "ok", "proxy", Undefined, NoPos, NoPos, 0, <<>>)
  /\ UNCHANGED <<pos, binding, pixels, stack, invocations, via>>

\* Other code of the caller moves the shared file.
ExternalSeek(p) ==
  /\ TopLevel
  /\ \E b \in Bindings : phase[b] = "built"
  /\ p # pos
  /\ pos' = p
  /\ last' = Outcome("seek", 0, "", "ok", "none", Undefined, NoPos, NoPos, 0, <<"seek">>)
  /\ UNCHANGED <<binding, pixels, wrapped, stack, invocations, via>>

\* this.passthru.includes(name)
Includes(list, name) == \E i \in 1..Len(list) : list[i] = name

\* Faulty variant of ShouldLoad: the get trap without the passthru test.
ShouldLoadUnlessLoaded(b, name) == ~loaded[b]

\* Faulty variant of ShouldLoad: the get trap without the loaded test.
ShouldLoadUnlessExempt(b, name) == ~Includes(passthru[b], name)

\* The get trap's condition for calling load().
ShouldLoad(b, name) == ~loaded[b] /\ ~Includes(passthru[b], name)

\* Faulty variant of LoadSeekPos: load() without file.seek(this.startPos).
LoadSeekPosUnmoved(b) == pos

\* The position load() seeks to before it calls the deferred operation.
LoadSeekPos(b) == startPos[b]

\* The position load() seeks to after the deferred operation has returned.
LoadRestorePos(f) == f.origPos

\* Faulty variant of Forward: target[name] is read before load() is called.
ForwardBeforeLoad(before, after, name) == TargetGet(before, name)

\* The get trap's `return target[name]`, which follows the call of load():
\* before and after are the target's data before and after the deferred
\* operation's effect.
Forward(before, after, name) == TargetGet(after, name)

\* The wrapper w is accessed by the caller, or by the deferred operation that
\* is running (an eager operation is taken not to touch a wrapper).
CanAccess(b, w) ==
  /\ phase[b] = "built"
  /\ w \in 1..wrapped[b]
  /\ IF TopLevel THEN TRUE ELSE Top.kind = "load"

\* get trap, nothing to load: return target[name].
GetTrapForward(b, w, name) ==
  /\ CanAccess(b, w)
  /\ ~ShouldLoad(b, name)
  /\ last' = Outcome("access", b, name, "ok", "value", TargetGet(pixels[b], name), pos, NoPos, 0, <<"forward">>)
  /\ UNCHANGED <<pos, binding, pixels, wrapped, stack, invocations, via>>

\* Faulty variant of GetTrapLoad: load() sets this.loaded before it calls the
\* deferred operation.
GetTrapLoadFlagFirst(b, w, name) ==
  /\ CanAccess(b, w)
  /\ ShouldLoad(b, name)
  /\ Callable(loadMethod[b])
  /\ Len(stack) < MaxDepth
  /\ invocations[b] < MaxInvocations
  /\ pos' = LoadSeekPos(b)
  /\ loaded' = [loaded EXCEPT ![b] = TRUE]
  /\ stack' = Append(stack, Frame("load", b, w, "get", loadMethod[b], loadArgs[b], name, pos, pos, pos'))
  /\ invocations' = [invocations EXCEPT ![b] = @ + 1]
  /\ via' = [via EXCEPT ![b] = @ \cup {w}]
  /\ last' = Pending
  /\ UNCHANGED <<phase, startPos, loadMethod, loadArgs, passthru, pixels, wrapped>>

\* get trap calling load(), up to the call of the deferred operation:
\* origPos = file.tell(); file.seek(startPos); obj[loadMethod].apply(...).
GetTrapLoad(b, w, name) ==
  /\ CanAccess(b, w)
  /\ ShouldLoad(b, name)
  /\ Callable(loadMethod[b])
  /\ Len(stack) < MaxDepth
  /\ invocations[b] < MaxInvocations
  /\ pos' = LoadSeekPos(b)
  /\ stack' = Append(stack, Frame("load", b, w, "get", loadMethod[b], loadArgs[b], name, pos, pos, pos'))
  /\ invocations' = [invocations EXCEPT ![b] = @ + 1]
  /\ via' = [via EXCEPT ![b] = @ \cup {w}]
  /\ last' = Pending
  /\ UNCHANGED <<binding, pixels, wrapped>>

\* get trap calling load() when this.loadMethod names no operation of the
\* target (later() was not called, or named a missing member): the call
\* obj[loadMethod].apply throws a TypeError after the seek.
GetTrapLoadTypeError(b, w, name) ==
  /\ CanAccess(b, w)
  /\ ShouldLoad(b, name)
  /\ ~Callable(loadMethod[b])
  /\ pos' = LoadSeekPos(b)
  /\ last' = Outcome("access", b, name, "throw", "none", Undefined, pos, NoPos, 0, <<"tell", "seek_start">>)
  /\ UNCHANGED <<binding, pixels, wrapped, stack, invocations, via>>

\* load() after the deferred operation has returned, and the rest of the get
\* trap: file.seek(origPos); this.loaded = true; return target[name].
LoadReturn ==
  /\ stack # <<>>
  /\ Top.kind = "load"
  /\ Top.trap = "get"
  /\ stack' = Pop
  /\ pixels' = [pixels EXCEPT ![Top.b] = TargetOpDone(Top.method, @)]
  /\ pos' = LoadRestorePos(Top)
  /\ loaded' = [loaded EXCEPT ![Top.b] = TRUE]
  /\ last' = Outcome("access", Top.b, Top.name, "ok", "value",
                     Forward(pixels[Top.b], pixels'[Top.b], Top.name),
                     Top.before, NoPos, 1,
                     <<"tell", "seek_start", "invoke", "seek_orig", "set_loaded", "forward">>)
  /\ UNCHANGED <<phase, startPos, loadMethod, loadArgs, passthru, wrapped, invocations, via>>

\* The running target operation reads on in the file.
OpAdvance ==
  /\ stack # <<>>
  /\ pos < MaxPos
  /\ pos' = pos + 1
  /\ UNCHANGED <<binding, pixels, wrapped, stack, invocations, via, last>>

\* The call a waiting handler belongs to.
TrapOp(f) ==
  IF f.kind = "now" THEN "now" ELSE IF f.trap = "apply" THEN "apply" ELSE "access"

\* The running target operation throws: the rest of now(), of load() and of
\* the get trap is skipped and the error reaches the handler's caller.
OpThrow ==
  /\ stack # <<>>
  /\ stack' = Pop
  /\ pixels' = [pixels EXCEPT ![Top.b] = TargetOpFailed(Top.method, @)]
  /\ last' = Outcome(TrapOp(Top), Top.b, Top.name,
                     "throw", "none", Undefined,
                     IF Top.kind = "now" THEN NoPos ELSE Top.before,
                     IF Top.kind = "now" THEN pos ELSE NoPos, 1,
                     IF Top.kind = "now" THEN <<"invoke">>
                     ELSE <<"tell", "seek_start", "invoke">>)
  /\ UNCHANGED <<pos, binding, wrapped, invocations, via>>

\* The calls on the bindings of B and on their proxies of W.
Calls(B, W) ==
  \/ \E b \in B : Construct(b)
  \/ \E b \in B, m \in MethodNames, a \in ArgLists : Now(b, m, a)
  \/ NowReturn
  \/ \E b \in B, m \in MethodNames, a \in ArgLists : Later(b, m, a)
  \/ \E b \in B, a \in IgnoreArgs : Ignore(b, a)
  \/ \E b \in B, w \in W : Get(b, w)
  \/ \E p \in Positions : ExternalSeek(p)
  \/ \E b \in B, w \in W, n \in Names : GetTrapForward(b, w, n)
  \/ \E b \in B, w \in W, n \in Names : GetTrapLoad(b, w, n)
  \/ \E b \in B, w \in W, n \in Names : GetTrapLoadTypeError(b, w, n)
  \/ LoadReturn
  \/ OpAdvance
  \/ OpThrow

Next == Calls(Solo, Single)

Spec == Init /\ [][Next]_vars

\* The calls that register the deferred operation, hand out proxies and
\* access them: Calls without now(), ignore() and the caller's own seeks.
AccessCalls(B, W) ==
  \/ \E b \in B : Construct(b)
  \/ \E b \in B, m \in MethodNames, a \in ArgLists : Later(b, m, a)
  \/ \E b \in B, w \in W : Get(b, w)
  \/ \E b \in B, w \in W, n \in Names : GetTrapForward(b, w, n)
  \/ \E b \in B, w \in W, n \in Names : GetTrapLoad(b, w, n)
  \/ \E b \in B, w \in W, n \in Names : GetTrapLoadTypeError(b, w, n)
  \/ LoadReturn
  \/ OpAdvance
  \/ OpThrow

\* A binding whose get() is called several times.
NextWrappers == AccessCalls(Solo, Wrappers)

SpecWrappers == Init /\ [][NextWrappers]_vars

\* Several bindings built over the one file, each with a proxy and with a
\* deferred operation registered without arguments.
NextShared ==
  \/ \E b \in Bindings : Construct(b)
  \/ \E b \in Bindings, m \in MethodNames : Later(b, m, <<>>)
  \/ \E b \in Bindings, w \in Single : Get(b, w)
  \/ \E b \in Bindings, w \in Single, n \in Names : GetTrapForward(b, w, n)
  \/ \E b \in Bindings, w \in Single, n \in Names : GetTrapLoad(b, w, n)
  \/ \E b \in Bindings, w \in Single, n \in Names : GetTrapLoadTypeError(b, w, n)
  \/ LoadReturn
  \/ OpAdvance
  \/ OpThrow

SpecShared == Init /\ [][NextShared]_vars

\* ------------------------------------------------------------ apply trap
\* The apply trap is entered when the proxy itself is called, which needs a
\* target that is a function.  Its condition reads `name`, which is no
\* parameter of the trap and no variable of the module: the identifier is
\* looked up in the global scope when the condition gets that far, that is
\* when this.loaded is false.  Unresolved: no global of that name exists and
\* the lookup throws a ReferenceError; otherwise the global's value.
Unresolved == "ReferenceError"
GlobalNames == {Unresolved, "", "width"}

\* The value the target function returns when it is called.
CallResult == <<"result", 0>>

\* What the apply trap returns after target.apply(self, args): it has no
\* return statement.
ApplyTrapResult(result) == Undefined

\* The apply trap's condition for calling load(), `name` resolved to g.
ApplyShouldLoad(b, g) == ~loaded[b] /\ ~Includes(passthru[b], g)

\* apply trap, the lookup of `name` throws: neither load() nor the target is
\* called.  n is the name of the target function the caller invokes.
ApplyTrapReferenceError(b, w, n) ==
  /\ CanAccess(b, w)
  /\ ~loaded[b]
  /\ last' = Outcome("apply", b, n, "throw", "none", Undefined, pos, NoPos, 0, <<>>)
  /\ UNCHANGED <<pos, binding, pixels, wrapped, stack, invocations, via>>

\* apply trap, nothing to load: target.apply(self, args).
ApplyTrapForward(b, w, n, g) ==
  /\ CanAccess(b, w)
  /\ loaded[b] \/ g # Unresolved
  /\ ~ApplyShouldLoad(b, g)
  /\ last' = Outcome("apply", b, n, "ok", "value", ApplyTrapResult(CallResult), pos, NoPos, 0, <<"call">>)
  /\ UNCHANGED <<pos, binding, pixels, wrapped, stack, invocations, via>>

\* apply trap calling load(), up to the call of the deferred operation.
ApplyTrapLoad(b, w, n, g) ==
  /\ CanAccess(b, w)
  /\ g # Unresolved
  /\ ApplyShouldLoad(b, g)
  /\ Callable(loadMethod[b])
  /\ Len(stack) < MaxDepth
  /\ invocations[b] < MaxInvocations
  /\ pos' = LoadSeekPos(b)
  /\ stack' = Append(stack, Frame("load", b, w, "apply", loadMethod[b], loadArgs[b], n, pos, pos, pos'))
  /\ invocations' = [invocations EXCEPT ![b] = @ + 1]
  /\ via' = [via EXCEPT ![b] = @ \cup {w}]
  /\ last' = Pending
  /\ UNCHANGED <<binding, pixels, wrapped>>

\* apply trap calling load() when this.loadMethod names no operation of the
\* target: TypeError after the seek.
ApplyTrapLoadTypeError(b, w, n, g) ==
  /\ CanAccess(b, w)
  /\ g # Unresolved
  /\ ApplyShouldLoad(b, g)
  /\ ~Callable(loadMethod[b])
  /\ pos' = LoadSeekPos(b)
  /\ last' = Outcome("apply", b, n, "throw", "none", Undefined, pos, NoPos, 0, <<"tell", "seek_start">>)
  /\ UNCHANGED <<binding, pixels, wrapped, stack, invocations, via>>

\* load() after the deferred operation has returned, and the rest of the
\* apply trap: file.seek(origPos); this.loaded = true; target.apply(self, args).
ApplyLoadReturn ==
  /\ stack # <<>>
  /\ Top.kind = "load"
  /\ Top.trap = "apply"
  /\ stack' = Pop
  /\ pixels' = [pixels EXCEPT ![Top.b] = TargetOpDone(Top.method, @)]
  /\ pos' = LoadRestorePos(Top)
  /\ loaded' = [loaded EXCEPT ![Top.b] = TRUE]
  /\ last' = Outcome("apply", Top.b, Top.name, "ok", "value", ApplyTrapResult(CallResult),
                     Top.before, NoPos, 1,
                     <<"tell", "seek_start", "invoke", "seek_orig", "set_loaded", "call">>)
  /\ UNCHANGED <<phase, startPos, loadMethod, loadArgs, passthru, wrapped, invocations, via>>

\* The calls on a binding whose target is a function: its proxy is read and
\* called.
ApplyCalls(B, W) ==
  \/ AccessCalls(B, W)
  \/ \E b \in B, a \in IgnoreArgs : Ignore(b, a)
  \/ \E b \in B, w \in W, n \in Names : ApplyTrapReferenceError(b, w, n)
  \/ \E b \in B, w \in W, n \in Names, g \in GlobalNames : ApplyTrapForward(b, w, n, g)
  \/ \E b \in B, w \in W, n \in Names, g \in GlobalNames : ApplyTrapLoad(b, w, n, g)
  \/ \E b \in B, w \in W, n \in Names, g \in GlobalNames : ApplyTrapLoadTypeError(b, w, n, g)
  \/ ApplyLoadReturn

NextApply == ApplyCalls(Solo, Single)

SpecApply == Init /\ [][NextApply]_vars

\* --------------------------------------------------------------- threads
\* load() when the accesses are made by threads that are not serialized: the
\* statements of load() are steps of their own and the steps of several
\* loads interleave.  `stack` holds the loads in progress, one per thread:
\* kind "told" after origPos = file.tell(), "sought" after
\* file.seek(this.startPos), "load" while the deferred operation runs.
\* before: history, the file position before the first of the loads in
\* progress began.  overlapped: history, the load of another thread was in
\* progress at some time during this load.
ThreadFrame(b, w, name) ==
  Frame("told", b, w, "get", loadMethod[b], loadArgs[b], name, pos,
        IF stack = <<>> THEN pos ELSE stack[1].before, NoPos)
    @@ [overlapped |-> stack # <<>>]

\* The loads in progress when a further load begins.
Overlapped(s) == [j \in 1..Len(s) |-> [s[j] EXCEPT !.overlapped = TRUE]]

RemoveAt(s, i) == SubSeq(s, 1, i - 1) \o SubSeq(s, i + 1, Len(s))

\* A thread reads member `name` of proxy w: the get trap calls load(), which
\* does origPos = file.tell().
ThreadTell(b, w, name) ==
  /\ phase[b] = "built"
  /\ w \in 1..wrapped[b]
  /\ ShouldLoad(b, name)
  /\ Callable(loadMethod[b])
  /\ Len(stack) < MaxDepth
  /\ \A i \in 1..Len(stack) : stack[i].b # b
  /\ stack' = Append(Overlapped(stack), ThreadFrame(b, w, name))
  /\ last' = Pending
  /\ UNCHANGED <<pos, binding, pixels, wrapped, invocations, via>>

\* file.seek(this.startPos)
ThreadSeek(i) ==
  /\ i <= Len(stack)
  /\ stack[i].kind = "told"
  /\ pos' = LoadSeekPos(stack[i].b)
  /\ stack' = [stack EXCEPT ![i].kind = "sought"]
  /\ UNCHANGED <<binding, pixels, wrapped, invocations, via, last>>

\* this.obj[this.loadMethod].apply(this.obj, this.loadArgs), up to the call.
ThreadInvoke(i) ==
  /\ i <= Len(stack)
  /\ stack[i].kind = "sought"
  /\ invocations[stack[i].b] < MaxInvocations
  /\ stack' = [stack EXCEPT ![i].kind = "load", ![i].began = pos]
  /\ invocations' = [invocations EXCEPT ![stack[i].b] = @ + 1]
  /\ via' = [via EXCEPT ![stack[i].b] = @ \cup {stack[i].w}]
  /\ UNCHANGED <<pos, binding, pixels, wrapped, last>>

\* The deferred operation of load i reads on in the file.
ThreadAdvance(i) ==
  /\ i <= Len(stack)
  /\ stack[i].kind = "load"
  /\ pos < MaxPos
  /\ pos' = pos + 1
  /\ UNCHANGED <<stack, binding, pixels, wrapped, invocations, via, last>>

\* The deferred operation of load i has returned: file.seek(origPos);
\* this.loaded = true; and the get trap returns target[name].  The opEnd of
\* `last` is history: the position the operation was invoked at.
ThreadReturn(i) ==
  /\ i <= Len(stack)
  /\ stack[i].kind = "load"
  /\ pos' = LoadRestorePos(stack[i])
  /\ stack' = RemoveAt(stack, i)
  /\ pixels' = [pixels EXCEPT ![stack[i].b] = TargetOpDone(stack[i].method, @)]
  /\ loaded' = [loaded EXCEPT ![stack[i].b] = TRUE]
  /\ last' = Outcome("access", stack[i].b, stack[i].name, "ok", "value",
                     Forward(pixels[stack[i].b], pixels'[stack[i].b], stack[i].name),
                     stack[i].before, stack[i].began, 1,
                     <<"tell", "seek_start", "invoke", "seek_orig", "set_loaded", "forward">>)
  /\ UNCHANGED <<phase, startPos, loadMethod, loadArgs, passthru, wrapped, invocations, via>>

\* Two bindings built over the one file at the caller's positions, each with
\* the deferred operation parse and a proxy, read by one thread each.
Pair == {1, 2}

NextThreads ==
  \/ \E b \in Pair : Construct(b)
  \/ \E b \in Pair : Later(b, "parse", <<>>)
  \/ \E b \in Pair, w \in Single : Get(b, w)
  \/ \E p \in Positions : ExternalSeek(p)
  \/ \E b \in Pair, w \in Single : ThreadTell(b, w, "pixels")
  \/ \E i \in 1..MaxDepth : ThreadSeek(i)
  \/ \E i \in 1..MaxDepth : ThreadInvoke(i)
  \/ \E i \in 1..MaxDepth : ThreadAdvance(i)
  \/ \E i \in 1..MaxDepth : ThreadReturn(i)

SpecThreads == Init /\ [][NextThreads]_vars

\* ----------------------------------------------------------------- claims
\* The step is an access of member n through a wrapper of binding b (the get
\* trap is entered).
AccessStep(b, n) ==
  \E w \in Wrappers :
    \/ GetTrapForward(b, w, n)
    \/ GetTrapLoad(b, w, n)
    \/ GetTrapLoadTypeError(b, w, n)

\* The call that ended last made load() invoke the deferred operation.
LoadRan == last.op = "access" /\ last.ran = 1

\* C1: over the life of a binding the deferred operation is invoked at most
\* once.
AtMostOneInvocation == \A b \in Bindings : invocations[b] <= 1

\* C2: an access, while loaded is false, to a member listed by ignore() does
\* not invoke the deferred operation, leaves loaded false and the file where
\* it is, does no tell or seek, and returns the target's value of the member.
ExemptAccessNeverLoads ==
  [][\A b \in Bindings, n \in Names :
       (~loaded[b] /\ Includes(passthru[b], n) /\ AccessStep(b, n))
         => /\ invocations' = invocations
            /\ loaded' = loaded
            /\ pos' = pos
            /\ stack' = stack
            /\ last'.outcome = "ok"
            /\ last'.value = TargetGet(pixels[b], n)
            /\ last'.trace = <<"forward">>]_vars

\* C2 witness: an ignored member was read on a binding that has a deferred
\* operation to run and has not run it.
ExemptAccessWitness ==
  /\ TopLevel
  /\ last.op = "access"
  /\ last.outcome = "ok"
  /\ Includes(passthru[last.b], last.name)
  /\ Callable(loadMethod[last.b])
  /\ ~loaded[last.b]
  /\ invocations[last.b] = 0
  /\ pos # startPos[last.b]

\* C3: when an access that made load() invoke the deferred operation has
\* ended, the file is at the position it had when the access was made.
StreamRoundTrip == (TopLevel /\ LoadRan) => pos = last.before

\* C4: startPos is the file position read by the constructor, no later step
\* changes it, and whenever load() invokes the deferred operation the file is
\* at startPos.
StartOffsetFixed ==
  [][\A b \in Bindings :
       /\ (phase[b] = "new" /\ phase'[b] = "built") => startPos'[b] = pos
       /\ phase[b] = "built" => startPos'[b] = startPos[b]
       /\ (Len(stack') = Len(stack) + 1
             /\ stack'[Len(stack')].kind = "load"
             /\ stack'[Len(stack')].b = b)
            => pos' = startPos[b]]_vars

\* C4 witness: the deferred operation has just been invoked at startPos, and
\* the file had been moved elsewhere between construction and the access.
StartOffsetWitness ==
  /\ stack # <<>>
  /\ Top.kind = "load"
  /\ Top.origPos # startPos[Top.b]
  /\ Top.began = startPos[Top.b]
  /\ pos = startPos[Top.b]
  /\ last = Pending

\* C5: an access made by the running deferred operation does not start the
\* load again: no binding has two loads in progress.
NoReentrantLoad ==
  \A i, j \in 1..Len(stack) :
    (i < j /\ stack[i].kind = "load" /\ stack[j].kind = "load")
      => stack[i].b # stack[j].b

\* C6: when the deferred operation has thrown, loaded is true, so that no
\* later access runs the deferred operation again.
FailedLoadIsFinal ==
  (TopLevel /\ LoadRan /\ last.outcome = "throw") => loaded[last.b]

\* C7: when the error of the deferred operation reaches the caller of the
\* access, the file is at the position it had when the access was made.
StreamRestoredOnError ==
  (TopLevel /\ LoadRan /\ last.outcome = "throw") => pos = last.before

\* C8: get() hands out a wrapper only for a binding whose registered deferred
\* operation is an operation of the target; otherwise it raises an error.
MisconfigurationCaughtByGet ==
  (last.op = "get" /\ last.outcome = "ok") => Callable(loadMethod[last.b])

\* C9: when now() returns, the eager operation has been invoked once and the
\* file is where that operation left it, with nothing loaded; when the eager
\* operation throws, now() throws and returns no binding to go on with.
EagerStepCompletes ==
  (TopLevel /\ last.op = "now")
    => /\ last.outcome \in {"ok", "throw"}
       /\ last.outcome = "ok" => (last.ran = 1 /\ last.ret = "this")
       /\ last.outcome = "throw" => last.ret = "none"
       /\ last.ran = 1 => pos = last.opEnd

\* C9 witness: now() has returned, the eager operation has moved the file
\* past startPos, and the binding is not loaded.
EagerStepWitness ==
  /\ TopLevel
  /\ last.op = "now"
  /\ last.outcome = "ok"
  /\ last.ran = 1
  /\ pos > startPos[last.b]
  /\ ~loaded[last.b]
  /\ invocations[last.b] = 0

\* C10: an access that ran the load returns the target's member as it is
\* after the deferred operation, and its events are, in this order: tell,
\* seek(startPos), the deferred operation, seek(origPos), then the forward.
LoadBeforeForward ==
  (LoadRan /\ last.outcome = "ok")
    => /\ last.value = TargetGet(pixels[last.b], last.name)
       /\ last.trace = <<"tell", "seek_start", "invoke", "seek_orig", "set_loaded", "forward">>
       /\ loaded[last.b]

\* C10 witness: the first access to "pixels" returned the parsed data.
LoadBeforeForwardWitness ==
  /\ TopLevel
  /\ LoadRan
  /\ last.outcome = "ok"
  /\ last.name = "pixels"
  /\ last.value = Parsed
  /\ invocations[last.b] = 1

InvokesDeferred(b) ==
  /\ Len(stack') = Len(stack) + 1
  /\ stack'[Len(stack')].kind = "load"
  /\ stack'[Len(stack')].b = b

\* The step is the normal return of a deferred operation of binding b.
DeferredReturns(b) ==
  IF stack = <<>> THEN FALSE
  ELSE Top.kind = "load" /\ Top.b = b /\ stack' = Pop /\ last'.outcome = "ok"

NoStreamTrafficOnceLoaded ==
  [][\A b \in Bindings, n \in Names :
       (loaded[b] /\ AccessStep(b, n))
         => /\ pos' = pos
            /\ UNCHANGED <<startPos, passthru, loadMethod, loadArgs, loaded>>
            /\ stack' = stack
            /\ invocations' = invocations
            /\ last'.outcome = "ok"
            /\ last'.value = TargetGet(pixels[b], n)
            /\ last'.trace = <<"forward">>]_vars

\* C14 witness: after the load, "pixels" was read again and came straight
\* from the target, with the file away from startPos.
ForwardOnceLoadedWitness ==
  /\ TopLevel
  /\ last.op = "access"
  /\ last.ran = 0
  /\ last.outcome = "ok"
  /\ last.name = "pixels"
  /\ last.value = Parsed
  /\ loaded[last.b]
  /\ invocations[last.b] = 1
  /\ pos # startPos[last.b]

\* C15: a later() call stores its name and argument list over the earlier
\* registration, raises no error and invokes nothing; the registration
\* changes in no other way, and load() invokes the operation registered at
\* that moment, with its argument list.
LaterLastWriteWins ==
  [][\A b \in Bindings :
       /\ \A m \in MethodNames, a \in ArgLists :
            Later(b, m, a)
              => /\ loadMethod'[b] = m
                 /\ loadArgs'[b] = a
                 /\ last'.outcome = "ok"
                 /\ last'.ret = "this"
                 /\ UNCHANGED <<pos, pixels, loaded, stack, invocations, via>>
       /\ (loadMethod'[b] # loadMethod[b] \/ loadArgs'[b] # loadArgs[b])
            => (last'.op = "later" /\ last'.b = b)
       /\ InvokesDeferred(b)
            => /\ stack'[Len(stack')].method = loadMethod[b]
               /\ stack'[Len(stack')].args = loadArgs[b]]_vars

\* C15 witness: the later() call that ended last has overwritten the
\* registration of another operation of the target, before any load.
LaterReplacedRegistration ==
  /\ last.op = "later"
  /\ ~loaded[last.b]
  /\ invocations[last.b] = 0
  /\ Callable(last.name)
  /\ Callable(loadMethod[last.b])
  /\ last.name # loadMethod[last.b]

\* C17: once get() has returned a wrapper for a binding, no later() call
\* changes the binding's registered deferred operation or its arguments.
RegistrationFrozenByGet ==
  [][\A b \in Bindings :
       wrapped[b] > 0 => (loadMethod'[b] = loadMethod[b] /\ loadArgs'[b] = loadArgs[b])]_vars

\* The eager operation called by now() is running.
EagerRunning == IF stack = <<>> THEN FALSE ELSE Top.kind = "now"

\* C19: the constructor, later(), ignore() and get() leave the file position,
\* loaded and the number of deferred invocations unchanged and call nothing;
\* now() and its eager operation leave loaded and the number of deferred
\* invocations unchanged; loaded becomes true and the deferred operation is
\* invoked only in a step of an access through a wrapper.
ConfigurationNeverLoads ==
  [][\A b \in Bindings :
       /\ (\/ Construct(b)
           \/ \E w \in Wrappers : Get(b, w)
           \/ \E a \in IgnoreArgs : Ignore(b, a)
           \/ \E m \in MethodNames, a \in ArgLists : Later(b, m, a))
            => /\ pos' = pos
               /\ stack' = stack
               /\ invocations' = invocations
               /\ loaded'[b] = loaded[b]
       /\ ((\E m \in MethodNames, a \in ArgLists : Now(b, m, a)) \/ EagerRunning)
            => /\ invocations' = invocations
               /\ loaded' = loaded
       /\ (~loaded[b] /\ loaded'[b]) => (last'.op = "access" /\ last'.b = b)
       /\ invocations'[b] # invocations[b] => InvokesDeferred(b)]_vars

\* C19 witness: a binding fully configured (eager skip done, deferred
\* operation and an exempt name registered, wrapper handed out) and not yet
\* accessed: it is not loaded and its deferred operation was never invoked.
ConfiguredNotLoadedWitness ==
  /\ TopLevel
  /\ last.op = "get"
  /\ Callable(loadMethod[last.b])
  /\ passthru[last.b] # <<>>
  /\ pos > startPos[last.b]
  /\ ~loaded[last.b]
  /\ invocations[last.b] = 0

\* C20: the deferred operation is never invoked through one proxy of a
\* binding after it was invoked through another proxy of the same binding,
\* and once a load triggered through one proxy has completed, an access
\* through any other proxy of the binding is forwarded without loading.
WrappersShareOneLoad ==
  [][\A b \in Bindings, w \in Wrappers :
       /\ (InvokesDeferred(b) /\ stack'[Len(stack')].w = w) => via[b] \subseteq {w}
       /\ \A n \in Names :
            (loaded[b] /\ w \notin via[b]
               /\ (GetTrapForward(b, w, n) \/ GetTrapLoad(b, w, n) \/ GetTrapLoadTypeError(b, w, n)))
              => /\ invocations' = invocations
                 /\ pos' = pos
                 /\ stack' = stack
                 /\ last'.outcome = "ok"
                 /\ last'.value = TargetGet(pixels[b], n)]_vars

\* The step is a call, through a proxy of binding b, of the target function
\* the caller knows as n (the apply trap is entered).
ApplyStep(b, n) ==
  \E w \in Wrappers :
    \/ ApplyTrapReferenceError(b, w, n)
    \/ \E g \in GlobalNames :
         \/ ApplyTrapForward(b, w, n, g)
         \/ ApplyTrapLoad(b, w, n, g)
         \/ ApplyTrapLoadTypeError(b, w, n, g)

\* C12: an invocation through the proxy while loaded is false, on a binding
\* with a deferred operation, is checked by the name of what is invoked: if
\* the name is exempt the invocation is forwarded, the deferred operation is
\* not invoked and loaded stays false; otherwise load() invokes the deferred
\* operation before the invoked function runs.
InvocationCheckedByInvokedName ==
  [][\A b \in Bindings, n \in Names :
       (ApplyStep(b, n) /\ ~loaded[b] /\ Callable(loadMethod[b]))
         => IF Includes(passthru[b], n)
              THEN /\ invocations' = invocations
                   /\ stack' = stack
                   /\ loaded' = loaded
                   /\ pos' = pos
                   /\ last'.outcome = "ok"
              ELSE InvokesDeferred(b)]_vars

\* C16: a call forwarded by the apply trap, before or after the load, returns
\* to the caller the value the target function returned.
ForwardedCallReturnsResult ==
  (last.op = "apply" /\ last.outcome = "ok") => last.value = CallResult

\* C13: with several bindings over one file, whenever no load is in progress
\* the file is where it would be had no load been triggered: an access
\* through any proxy that has ended, whatever loads it started and nested,
\* left the file at the position it had when the access was made.
SharedStreamConsistent ==
  \A b \in Bindings :
    (TopLevel /\ last.op = "access" /\ last.b = b) => pos = last.before

\* C18: when accesses are made by threads, a load that no load of another
\* thread has overlapped invokes its deferred operation at the binding's
\* startPos and leaves the file where it was before it began: a deferred
\* operation that runs away from startPos, or a file left elsewhere, comes
\* from the interleaving of the steps of two loads.
SerializedLoadsAreSafe ==
  [][\A i \in 1..MaxDepth :
       /\ (ThreadInvoke(i) /\ ~stack[i].overlapped) => pos = startPos[stack[i].b]
       /\ (ThreadReturn(i) /\ ~stack[i].overlapped)
            => (stack' = <<>> /\ pos' = stack[i].before)]_vars

\* C18 witness: the loads of two bindings were interleaved and have both
\* ended; the deferred operation of the one that ended last was invoked with
\* the file not at the binding's startPos, and the file is not where it was
\* before the loads began.
ThreadsRaceWitness ==
  /\ stack = <<>>
  /\ last.op = "access"
  /\ \E b \in Bindings : b # last.b /\ loaded[b] /\ invocations[b] = 1
  /\ loaded[last.b]
  /\ invocations[last.b] = 1
  /\ last.opEnd # startPos[last.b]
  /\ pos # last.before
====
